---- MODULE Spec2Model ----
(***************************************************************************)
(* Model of the go-mavlink packet codec (package mavlink): the Encoder,    *)
(* which frames, checksums and sequences Packets onto a buffered writer,   *)
(* and the Decoder, which parses frames from a byte stream (Decode) or     *)
(* from a received buffer (DecodeBytes).                                   *)
(***************************************************************************)
EXTENDS Integers, Sequences, FiniteSets, TLC

(***************************************************************************)
(* Program constants                                                       *)
(***************************************************************************)
startByte == 254
numChecksumBytes == 2
hdrLen == 6

(***************************************************************************)
(* Bounds of the model                                                     *)
(***************************************************************************)
\* longest in-range payload the inputs carry (lengths 0..MaxPayloadLen)
MaxPayloadLen == 2
\* EncodePacket calls per behaviour of the encoder specification
MaxCalls == 2
\* capacity of the bufio.Writer the Encoder was given
BufSize == 16
\* longest run of line noise put in front of a frame
MaxGarbage == 2
\* spare capacity of the array behind a received buffer (cap(b) - len(b))
MaxSlack == 2
\* Decode calls on one stream
MaxDecodes == 3

(***************************************************************************)
(* Errors.  "nil" is Go's nil error; "panic" is a run-time panic of the    *)
(* call (index or slice bounds out of range).                              *)
(***************************************************************************)
nil == "nil"
ErrUnknownMsgID == "unknown msg id"
ErrCrcFail == "checksum did not match"
ErrInvalidHeader == "invalid header"
ErrShortWrite == "short write"
ErrUnexpectedEOF == "unexpected EOF"
EOF == "EOF"
ErrIO == "write failed"
ErrPack == "pack failed"
Panic == "panic"

(***************************************************************************)
(* Bytes and slices                                                        *)
(***************************************************************************)
Take(s, n) == SubSeq(s, 1, n)
Drop(s, n) == SubSeq(s, n + 1, Len(s))

RECURSIVE BitXor(_, _)
BitXor(a, b) ==
    IF a = 0 THEN b
    ELSE IF b = 0 THEN a
    ELSE (((a % 2) + (b % 2)) % 2) + 2 * BitXor(a \div 2, b \div 2)

RECURSIVE Pow2(_)
Pow2(k) == IF k = 0 THEN 1 ELSE 2 * Pow2(k - 1)

(***************************************************************************)
(* x25: the CRC-16/X25 accumulator (reflected polynomial 0x1021, that is   *)
(* 0x8408; initial value 0xFFFF; the sum is the raw register).             *)
(***************************************************************************)
RECURSIVE X25Shift(_, _)
X25Shift(r, k) ==
    IF k = 0 THEN r
    ELSE X25Shift(IF r % 2 = 1 THEN BitXor(r \div 2, 33800) ELSE r \div 2, k - 1)

X25Table == [i \in 0..255 |-> X25Shift(i, 8)]

X25New == 65535

X25WriteByte(crc, b) == BitXor(crc \div 256, X25Table[BitXor(crc % 256, b)])

\* the bytes s[lo..hi] absorbed in order.  The range is split in halves and
\* the first half's sum is looked at before going on, which keeps the
\* evaluation shallow; the bytes are absorbed in the same order.
RECURSIVE X25WriteRange(_, _, _, _)
X25WriteRange(crc, s, lo, hi) ==
    IF lo > hi THEN crc
    ELSE IF lo = hi THEN X25WriteByte(crc, s[lo])
    ELSE LET mid == (lo + hi) \div 2
             half == X25WriteRange(crc, s, lo, mid)
         IN  IF half >= 0 THEN X25WriteRange(half, s, mid + 1, hi) ELSE half

X25Write(crc, s) == X25WriteRange(crc, s, 1, Len(s))

(***************************************************************************)
(* Dialects: message id -> crc-extra seed, looked up in registration       *)
(* order.                                                                  *)
(***************************************************************************)
DialectCommon == "common"
DialectArdupilotmega == "ardupilotmega"

\* HEARTBEAT, SYS_STATUS, GLOBAL_POSITION_INT of common; SENSOR_OFFSETS of
\* ardupilotmega
crcExtras(d) ==
    IF d = DialectCommon THEN (0 :> 50 @@ 1 :> 124 @@ 33 :> 104)
    ELSE (150 :> 134)

RECURSIVE findCrcXFrom(_, _, _)
findCrcXFrom(ds, msgid, i) ==
    IF i > Len(ds) THEN [crcx |-> 0, err |-> ErrUnknownMsgID]
    ELSE IF msgid \in DOMAIN crcExtras(ds[i])
         THEN [crcx |-> crcExtras(ds[i])[msgid], err |-> nil]
         ELSE findCrcXFrom(ds, msgid, i + 1)

findCrcX(ds, msgid) == findCrcXFrom(ds, msgid, 1)

DialectsAdd(ds, d) ==
    IF \E i \in 1..Len(ds) : ds[i] = d THEN ds ELSE Append(ds, d)

(***************************************************************************)
(* Packet                                                                  *)
(***************************************************************************)
Packet(seq, sys, comp, msg, payload, sum) ==
    [SeqID |-> seq, SysID |-> sys, CompID |-> comp, MsgID |-> msg,
     Payload |-> payload, Checksum |-> sum]

\* the zero Packet; stands in the p field of a result whose *Packet is nil
ZeroPacket == Packet(0, 0, 0, 0, <<>>, 0)

\* faulty variant: the payload length is taken from the sequence byte
newPacketFromBytes_LenFromSeq(b) ==
    [p |-> Packet(b[2], b[3], b[4], b[5], <<>>, 0), payloadLen |-> b[2]]

\* the Packet with the header fields of b (b[0] is the length byte), and the
\* payload length
newPacketFromBytes(b) ==
    [p |-> Packet(b[2], b[3], b[4], b[5], <<>>, 0), payloadLen |-> b[1]]

\* faulty variant: the checksum serialized high byte first
u16ToBytes_BigEndian(v) == <<v \div 256, v % 256>>

u16ToBytes(v) == <<v % 256, v \div 256>>

bytesToU16(p) == p[2] * 256 + p[1]

(***************************************************************************)
(* The byte sink behind the Encoder's bufio.Writer.  A sink mode says what *)
(* one Write(p) of the underlying io.Writer returns during a call: it      *)
(* takes at most `limit` bytes; asked for more it returns (limit, err),    *)
(* where err = nil is a short write that reports no error.                 *)
(***************************************************************************)
SinkOk == [limit |-> 65536, err |-> nil]
SinkModes ==
    {SinkOk, [limit |-> 3, err |-> ErrIO], [limit |-> 3, err |-> nil]}

SinkWrite(mode, p) ==
    IF Len(p) <= mode.limit THEN [n |-> Len(p), err |-> nil]
    ELSE [n |-> mode.limit, err |-> mode.err]

(***************************************************************************)
(* bufio.Writer: w = [buf, err, sink], the buffered bytes, the sticky      *)
(* error and the bytes the underlying writer has taken so far.             *)
(***************************************************************************)
Available(w) == BufSize - Len(w.buf)

BufFlush(w, mode) ==
    IF w.err # nil THEN [w |-> w, err |-> w.err]
    ELSE IF Len(w.buf) = 0 THEN [w |-> w, err |-> nil]
    ELSE LET r == SinkWrite(mode, w.buf)
             err == IF r.n < Len(w.buf) /\ r.err = nil THEN ErrShortWrite ELSE r.err
         IN  IF err # nil
             THEN [w |-> [buf |-> Drop(w.buf, r.n), err |-> err,
                          sink |-> w.sink \o Take(w.buf, r.n)],
                   err |-> err]
             ELSE [w |-> [buf |-> <<>>, err |-> nil, sink |-> w.sink \o w.buf],
                   err |-> nil]

RECURSIVE BufWriteLoop(_, _, _, _)
BufWriteLoop(w, p, nn, mode) ==
    IF Len(p) > Available(w) /\ w.err = nil
    THEN IF Len(w.buf) = 0
         THEN \* large write, empty buffer: written directly from p
              LET r == SinkWrite(mode, p)
              IN  BufWriteLoop([w EXCEPT !.err = r.err,
                                         !.sink = w.sink \o Take(p, r.n)],
                               Drop(p, r.n), nn + r.n, mode)
         ELSE LET n == Available(w)
                  f == BufFlush([w EXCEPT !.buf = w.buf \o Take(p, n)], mode)
              IN  BufWriteLoop(f.w, Drop(p, n), nn + n, mode)
    ELSE IF w.err # nil THEN [w |-> w, n |-> nn, err |-> w.err]
    ELSE [w |-> [w EXCEPT !.buf = w.buf \o p], n |-> nn + Len(p), err |-> nil]

BufWrite(w, p, mode) == BufWriteLoop(w, p, 0, mode)

(***************************************************************************)
(* Encoder                                                                 *)
(***************************************************************************)
writeAndCheck(w, p, mode) ==
    LET r == BufWrite(w, p, mode)
    IN  IF r.err = nil /\ r.n # Len(p) THEN [w |-> r.w, err |-> ErrShortWrite]
        ELSE [w |-> r.w, err |-> r.err]

\* faulty variant: the header carries the packet's own SeqID
Hdr_PacketSeq(seq, p) ==
    <<startByte, Len(p.Payload) % 256, p.SeqID, p.SysID, p.CompID, p.MsgID>>

\* the header EncodePacket builds
Hdr(seq, p) ==
    <<startByte, Len(p.Payload) % 256, seq, p.SysID, p.CompID, p.MsgID>>

\* faulty variant: the counter advances whatever the flush returned
SeqAfterFlush_Always(seq, err) == (seq + 1) % 256

\* CurrSeqID after the flush returned err
SeqAfterFlush(seq, err) == IF err = nil THEN (seq + 1) % 256 ELSE seq

\* the checksum EncodePacket computes
EncodeSum(hdr, payload, crcx) ==
    X25WriteByte(X25Write(X25Write(X25New, Drop(hdr, 1)), payload), crcx)

\* EncodePacket on encoder e with writer w: the encoder and writer after the
\* call, the error returned, and the bytes the call handed to the writer
EncodePacketOp(e, w, p, mode) ==
    LET hdr == Hdr(e.CurrSeqID, p)
        r1 == writeAndCheck(w, hdr, mode)
        r2 == writeAndCheck(r1.w, p.Payload, mode)
        x == findCrcX(e.Dialects, p.MsgID)
        crcBytes == u16ToBytes(EncodeSum(hdr, p.Payload, x.crcx))
        r3 == writeAndCheck(r2.w, crcBytes, mode)
        f == BufFlush(r3.w, mode)
    IN  IF r1.err # nil THEN [e |-> e, w |-> r1.w, err |-> r1.err, wrote |-> <<>>]
        ELSE IF r2.err # nil THEN [e |-> e, w |-> r2.w, err |-> r2.err, wrote |-> hdr]
        ELSE IF x.err # nil
             THEN [e |-> e, w |-> r2.w, err |-> x.err, wrote |-> hdr \o p.Payload]
        ELSE IF r3.err # nil
             THEN [e |-> e, w |-> r3.w, err |-> r3.err, wrote |-> hdr \o p.Payload]
        ELSE [e |-> [e EXCEPT !.CurrSeqID = SeqAfterFlush(e.CurrSeqID, f.err)],
              w |-> f.w, err |-> f.err,
              wrote |-> hdr \o p.Payload \o crcBytes]

\* faulty variant: the ids Pack left in the Packet are kept
Stamp_None(p, sysID, compID) == p

\* p.SysID, p.CompID = sysID, compID
Stamp(p, sysID, compID) == [p EXCEPT !.SysID = sysID, !.CompID = compID]

\* Encode(sysID, compID, m): m.Pack fills a Packet with m.p or fails with m.err
EncodeMsgOp(e, w, sysID, compID, m, mode) ==
    IF m.err # nil THEN [e |-> e, w |-> w, err |-> m.err, wrote |-> <<>>]
    ELSE EncodePacketOp(e, w, Stamp(m.p, sysID, compID), mode)

(***************************************************************************)
(* Decoder                                                                 *)
(***************************************************************************)
\* index of the first start byte of s at or after i, 0 when there is none
RECURSIVE IndexOfStart(_, _)
IndexOfStart(s, i) ==
    IF i > Len(s) THEN 0
    ELSE IF s[i] = startByte THEN i
    ELSE IndexOfStart(s, i + 1)

\* faulty variant: no resynchronization, the stream must begin with the start byte
SkipToStart_FirstByteOnly(s) ==
    [found |-> Len(s) > 0 /\ s[1] = startByte, rest |-> Drop(s, 1)]

\* what is left of the stream once Decode has read its start byte
SkipToStart(s) ==
    LET i == IndexOfStart(s, 1)
    IN  [found |-> i # 0, rest |-> IF i = 0 THEN <<>> ELSE Drop(s, i)]

\* io.ReadFull's error when the source ends after n of the wanted bytes
ReadFullErr(n) == IF n = 0 THEN EOF ELSE ErrUnexpectedEOF

\* faulty variant: the checksums are not compared
CrcMatches_Always(checksum, sum) == TRUE

\* does the transmitted checksum match the computed one?
CrcMatches(checksum, sum) == checksum = sum

\* faulty variant: the checksum is compared before the lookup's error is looked at
Verify_CrcFirst(d, p, sum, tail) ==
    LET x == findCrcX(d.Dialects, p.MsgID)
        q == [p EXCEPT !.Checksum = bytesToU16(tail)]
    IN  IF ~CrcMatches(q.Checksum, X25WriteByte(sum, x.crcx))
        THEN [d |-> d, nilp |-> FALSE, p |-> q, err |-> ErrCrcFail]
        ELSE IF x.err # nil THEN [d |-> d, nilp |-> FALSE, p |-> p, err |-> x.err]
        ELSE [d |-> [d EXCEPT !.CurrSeqID = q.SeqID], nilp |-> FALSE, p |-> q,
              err |-> nil]

\* faulty variant: the sequence id is recorded before the checksums are compared
Verify_SeqOnCrcFail(d, p, sum, tail) ==
    LET x == findCrcX(d.Dialects, p.MsgID)
        q == [p EXCEPT !.Checksum = bytesToU16(tail)]
        e == [d EXCEPT !.CurrSeqID = q.SeqID]
    IN  IF x.err # nil THEN [d |-> d, nilp |-> FALSE, p |-> p, err |-> x.err]
        ELSE IF ~CrcMatches(q.Checksum, X25WriteByte(sum, x.crcx))
             THEN [d |-> e, nilp |-> FALSE, p |-> q, err |-> ErrCrcFail]
        ELSE [d |-> e, nilp |-> FALSE, p |-> q, err |-> nil]

\* the registry lookup and the checksum comparison that end both decoders:
\* p carries header and payload, tail the bytes after the payload
Verify(d, p, sum, tail) ==
    LET x == findCrcX(d.Dialects, p.MsgID)
        q == [p EXCEPT !.Checksum = bytesToU16(tail)]
    IN  IF x.err # nil THEN [d |-> d, nilp |-> FALSE, p |-> p, err |-> x.err]
        ELSE IF ~CrcMatches(q.Checksum, X25WriteByte(sum, x.crcx))
             THEN [d |-> d, nilp |-> FALSE, p |-> q, err |-> ErrCrcFail]
        ELSE [d |-> [d EXCEPT !.CurrSeqID = q.SeqID], nilp |-> FALSE, p |-> q,
              err |-> nil]

\* faulty variant: no Packet comes with the error
ShortRead_NilPacket(d, p, n) ==
    [d |-> d, rest |-> <<>>, nilp |-> TRUE, p |-> ZeroPacket, err |-> ReadFullErr(n)]

\* Decode's return when the source ends n bytes into payload and checksum: the
\* Packet made of the header, and io.ReadFull's error
ShortRead(d, p, n) ==
    [d |-> d, rest |-> <<>>, nilp |-> FALSE, p |-> p, err |-> ReadFullErr(n)]

\* Decode on decoder d whose reader still holds the bytes s
DecodeOp(d, s) ==
    LET k == SkipToStart(s)
        a == k.rest
        hdr == Take(a, hdrLen - 1)
        h == newPacketFromBytes(hdr)
        b == Drop(a, hdrLen - 1)
        need == h.payloadLen + numChecksumBytes
        buf == Take(b, need)
        p == [h.p EXCEPT !.Payload = Take(buf, h.payloadLen)]
        sum == X25Write(X25Write(X25New, hdr), p.Payload)
        v == Verify(d, p, sum, Drop(buf, h.payloadLen))
    IN  IF ~k.found
        THEN [d |-> d, rest |-> <<>>, nilp |-> TRUE, p |-> ZeroPacket, err |-> EOF]
        ELSE IF Len(a) < hdrLen - 1
             THEN [d |-> d, rest |-> <<>>, nilp |-> TRUE, p |-> ZeroPacket,
                   err |-> ReadFullErr(Len(a))]
        ELSE IF Len(b) < need
             THEN ShortRead(d, h.p, Len(b))
        ELSE [d |-> v.d, rest |-> Drop(b, need), nilp |-> v.nilp, p |-> v.p,
              err |-> v.err]

\* faulty variant: only the length of the buffer is looked at
InvalidHeader_LenOnly(arr, n) == n < hdrLen

\* DecodeBytes' only check of its input b = arr[:n]
InvalidHeader(arr, n) == n < hdrLen \/ arr[1] # startByte

\* faulty variant: the start byte is summed too
BytesSum_WithStart(arr, end) == X25Write(X25New, SubSeq(arr, 1, end))

\* the checksum DecodeBytes computes over b[1:hdrLen+payloadLen]
BytesSum(arr, end) == X25Write(X25New, SubSeq(arr, 2, end))

\* DecodeBytes(b) where b = arr[:n]: arr is the array behind the slice, so
\* cap(b) = Len(arr).  A slice expression past cap(b), or past len(b) for an
\* open-ended one, and an index past the slice's length panic.
DecodeBytesOp(d, arr, n) ==
    LET h == newPacketFromBytes(SubSeq(arr, 2, n))
        end == hdrLen + h.payloadLen
        p == [h.p EXCEPT !.Payload = SubSeq(arr, hdrLen + 1, end)]
        sum == BytesSum(arr, end)
        x == findCrcX(d.Dialects, p.MsgID)
        crashed == [d |-> d, nilp |-> TRUE, p |-> ZeroPacket, err |-> Panic]
    IN  IF InvalidHeader(arr, n)
        THEN [d |-> d, nilp |-> TRUE, p |-> ZeroPacket, err |-> ErrInvalidHeader]
        ELSE IF end > Len(arr) THEN crashed
        ELSE IF x.err # nil THEN [d |-> d, nilp |-> FALSE, p |-> p, err |-> x.err]
        ELSE IF end > n \/ n - end < numChecksumBytes THEN crashed
        ELSE Verify(d, p, sum, SubSeq(arr, end + 1, n))

(***************************************************************************)
(* Inputs                                                                  *)
(***************************************************************************)
\* a value a caller may give the exported field Encoder.CurrSeqID: the last
\* one before the counter wraps
LastSeq == 255

SampleBytes == <<254, 1, 0, 255>>
PayloadOfLen(n) == [i \in 1..n |-> SampleBytes[((i - 1) % 4) + 1]]

\* payloads the length byte can describe
InRangePayloads == {PayloadOfLen(n) : n \in 0..MaxPayloadLen}
\* the shortest payload it cannot
OversizePayload == [i \in 1..256 |-> 0]

\* 0 and 150 are defined by a dialect, 3 by none
MsgIDs == {0, 3, 150}

\* the SeqID field the callers set is none the encoder reaches by itself
PacketsOf(payloads) ==
    {Packet(7, 1, 2, m, pl, 0) : m \in MsgIDs, pl \in payloads}

Packets == PacketsOf(InRangePayloads \cup {OversizePayload})

GarbageBytes == {85, startByte}
GarbageRuns ==
    UNION {[1..n -> GarbageBytes] : n \in 1..MaxGarbage}

\* s with bit k flipped (bit k % 8 of byte k \div 8, counted from 0)
FlipBit(s, k) ==
    [s EXCEPT ![(k \div 8) + 1] = BitXor(@, Pow2(k % 8))]

Zeros(n) == [i \in 1..n |-> 0]

\* Messages: what their Pack makes of a Packet, ids of its own included, and
\* one whose Pack fails half way
Messages ==
    {[p |-> Packet(0, 9, 9, m, pl, 0), err |-> nil] :
        m \in {0, 150}, pl \in {<<>>, PayloadOfLen(MaxPayloadLen)}}
    \cup {[p |-> Packet(0, 9, 9, 0, <<>>, 0), err |-> ErrPack]}

\* the system and component ids a caller passes to Encode
SenderIDs == {<<0, 0>>, <<1, 2>>}

(***************************************************************************)
(* State                                                                   *)
(***************************************************************************)
VARIABLES
    enc,     \* the Encoder: [CurrSeqID, Dialects]
    bw,      \* its bufio.Writer and the sink behind it: [buf, err, sink]
    encRet,  \* the last EncodePacket call: [op, err, arg, wrote]
    sent,    \* what the successful EncodePacket calls handed to the writer
    seq0,    \* the encoder's CurrSeqID before its first call
    calls,   \* number of EncodePacket calls made
    dec,     \* the Decoder: [CurrSeqID, Dialects]
    br,      \* the unread bytes of the Decoder's reader
    wire,    \* what the link delivered: [kind, bytes, at]
    ret,     \* the last Decode or DecodeBytes call: [op, in, nilp, p, err]
    nDec,    \* Decode calls made on the delivered stream
    nOk,     \* those that returned no error
    okP,     \* the Packet the last of those returned
    hist     \* how each of the Decode calls ended: [err, nilp, p, seq, left]

encVars == <<enc, bw, encRet, sent, seq0, calls>>
decVars == <<dec, br, wire, ret, nDec, nOk, okP, hist>>
vars == <<enc, bw, encRet, sent, seq0, calls, dec, br, wire, ret, nDec, nOk, okP, hist>>

Init ==
    /\ enc = [CurrSeqID |-> 0, Dialects |-> <<DialectCommon>>]
    /\ bw = [buf |-> <<>>, err |-> nil, sink |-> <<>>]
    /\ encRet = [op |-> "none", err |-> nil, arg |-> ZeroPacket, wrote |-> <<>>]
    /\ sent = <<>>
    /\ seq0 = enc.CurrSeqID
    /\ calls = 0
    /\ dec = [CurrSeqID |-> 0, Dialects |-> <<DialectCommon>>]
    /\ br = <<>>
    /\ wire = [kind |-> "none", bytes |-> <<>>, at |-> 0]
    /\ ret = [op |-> "none", in |-> <<>>, nilp |-> TRUE, p |-> ZeroPacket, err |-> nil]
    /\ nDec = 0
    /\ nOk = 0
    /\ okP = ZeroPacket
    /\ hist = <<>>

(***************************************************************************)
(* Encoder actions                                                         *)
(***************************************************************************)
EncodePacket(p, mode) ==
    /\ calls < MaxCalls
    /\ LET r == EncodePacketOp(enc, bw, p, mode)
       IN  /\ enc' = r.e
           /\ bw' = r.w
           /\ encRet' = [op |-> "EncodePacket", err |-> r.err, arg |-> p,
                         wrote |-> r.wrote]
           /\ sent' = IF r.err = nil THEN Append(sent, r.wrote) ELSE sent
    /\ calls' = calls + 1
    /\ UNCHANGED <<seq0, dec, br, wire, ret, nDec, nOk, okP, hist>>

\* enc.Dialects.Add(d), before the first call
EncAddDialect(d) ==
    /\ calls = 0
    /\ enc' = [enc EXCEPT !.Dialects = DialectsAdd(@, d)]
    /\ UNCHANGED <<bw, encRet, sent, seq0, calls, dec, br, wire, ret, nDec, nOk, okP, hist>>

\* enc.CurrSeqID = LastSeq, before the first call
EncSetSeq ==
    /\ calls = 0
    /\ enc.CurrSeqID # LastSeq
    /\ enc' = [enc EXCEPT !.CurrSeqID = LastSeq]
    /\ seq0' = LastSeq
    /\ UNCHANGED <<bw, encRet, sent, calls, dec, br, wire, ret, nDec, nOk, okP, hist>>

Encode == \E p \in Packets, mode \in SinkModes : EncodePacket(p, mode)
EncAdd == EncAddDialect(DialectArdupilotmega)

\* Encode(sysID, compID, m)
EncodeMsg ==
    \E m \in Messages, ids \in SenderIDs, mode \in SinkModes :
        /\ calls < MaxCalls
        /\ LET r == EncodeMsgOp(enc, bw, ids[1], ids[2], m, mode)
           IN  /\ enc' = r.e
               /\ bw' = r.w
               /\ encRet' = [op |-> "Encode", err |-> r.err, arg |-> m.p,
                             wrote |-> r.wrote, packErr |-> m.err,
                             sysID |-> ids[1], compID |-> ids[2]]
               /\ sent' = IF r.err = nil THEN Append(sent, r.wrote) ELSE sent
        /\ calls' = calls + 1
        /\ UNCHANGED <<seq0, dec, br, wire, ret, nDec, nOk, okP, hist>>

(***************************************************************************)
(* The link: one frame sent over a healthy sink, then delivered to the     *)
(* decoder as it is, damaged, cut short or behind line noise.              *)
(***************************************************************************)
Send == \E p \in PacketsOf(InRangePayloads) : calls = 0 /\ EncodePacket(p, SinkOk)

Deliverable == encRet.op = "EncodePacket" /\ encRet.err = nil /\ wire.kind = "none"

Put(kind, bytes, at) ==
    /\ Deliverable
    /\ wire' = [kind |-> kind, bytes |-> bytes, at |-> at]
    /\ br' = bytes
    /\ UNCHANGED <<enc, bw, encRet, sent, seq0, calls, dec, ret, nDec, nOk, okP, hist>>

Deliver == Put("frame", encRet.wrote, 0)
Flip == \E k \in 0..(8 * Len(encRet.wrote) - 1) : Put("flip", FlipBit(encRet.wrote, k), k)
Cut == \E n \in 0..(Len(encRet.wrote) - 1) : Put("cut", Take(encRet.wrote, n), n)
Noise == \E g \in GarbageRuns : Put("noise", g \o encRet.wrote, Len(g))

(***************************************************************************)
(* The stream: frames sent back to back over a healthy sink, then          *)
(* delivered to the decoder in one piece, as they are or with one bit of   *)
(* the first frame flipped.                                                *)
(***************************************************************************)
\* the frames of a stream carry a message id both registries define
StreamPackets == {p \in PacketsOf(InRangePayloads) : p.MsgID = 0}

SendNext == \E p \in StreamPackets : wire.kind = "none" /\ EncodePacket(p, SinkOk)

PutStream(kind, bytes, at) ==
    /\ sent # <<>>
    /\ wire.kind = "none"
    /\ wire' = [kind |-> kind, bytes |-> bytes, at |-> at]
    /\ br' = bytes
    /\ UNCHANGED <<enc, bw, encRet, sent, seq0, calls, dec, ret, nDec, nOk, okP, hist>>

DeliverStream == PutStream("stream", bw.sink, 0)
DamageStream ==
    /\ sent # <<>>
    /\ \E k \in 0..(8 * Len(sent[1]) - 1) :
          PutStream("damaged", FlipBit(bw.sink, k), k)

(***************************************************************************)
(* Decoder actions                                                         *)
(***************************************************************************)
\* dec.Dialects.Add(d), before the first use
DecAdd ==
    /\ wire.kind = "none" /\ ret.op = "none"
    /\ dec' = [dec EXCEPT !.Dialects = DialectsAdd(@, DialectArdupilotmega)]
    /\ UNCHANGED <<enc, bw, encRet, sent, seq0, calls, br, wire, ret, nDec, nOk, okP, hist>>

Decode ==
    /\ wire.kind # "none"
    /\ nDec < MaxDecodes
    /\ LET r == DecodeOp(dec, br)
       IN  /\ dec' = r.d
           /\ br' = r.rest
           /\ ret' = [op |-> "Decode", in |-> br, nilp |-> r.nilp, p |-> r.p,
                      err |-> r.err]
           /\ nOk' = IF r.err = nil THEN nOk + 1 ELSE nOk
           /\ okP' = IF r.err = nil THEN r.p ELSE okP
           /\ hist' = Append(hist, [err |-> r.err, nilp |-> r.nilp, p |-> r.p,
                                    seq |-> r.d.CurrSeqID, left |-> Len(r.rest)])
    /\ nDec' = nDec + 1
    /\ UNCHANGED <<enc, bw, encRet, sent, seq0, calls, wire>>

\* DecodeBytes on the delivered bytes, received into an array with `slack`
\* spare bytes behind them
DecodeBytes ==
    /\ wire.kind # "none"
    /\ \E slack \in 0..MaxSlack :
          LET r == DecodeBytesOp(dec, wire.bytes \o Zeros(slack), Len(wire.bytes))
          IN  /\ dec' = r.d
              /\ ret' = [op |-> "DecodeBytes", in |-> wire.bytes, nilp |-> r.nilp,
                         p |-> r.p, err |-> r.err]
    /\ UNCHANGED <<enc, bw, encRet, sent, seq0, calls, br, wire, nDec, nOk, okP, hist>>

(***************************************************************************)
(* Specifications                                                          *)
(***************************************************************************)
\* the encoder, called MaxCalls times over a sink that may fail
Next == Encode \/ EncAdd \/ EncSetSeq

Spec == Init /\ [][Next]_vars

\* one frame from encoder to decoder over the link
NextWire ==
    \/ EncAdd \/ EncSetSeq \/ DecAdd
    \/ Send \/ Deliver \/ Flip \/ Cut \/ Noise
    \/ Decode \/ DecodeBytes

SpecWire == Init /\ [][NextWire]_vars

\* up to MaxCalls frames from encoder to decoder as one stream
NextStream == SendNext \/ DeliverStream \/ DamageStream \/ Decode

SpecStream == Init /\ [][NextStream]_vars

\* the encoder, given messages to pack
NextMsg == EncodeMsg \/ EncAdd \/ EncSetSeq

SpecMsg == Init /\ [][NextMsg]_vars

(***************************************************************************)
(* Properties                                                              *)
(***************************************************************************)
Known(ds, msgid) == findCrcX(ds, msgid).err = nil

\* the fields a frame carries, as the decoders return them
SameContent(p, q) ==
    /\ p.SysID = q.SysID
    /\ p.CompID = q.CompID
    /\ p.MsgID = q.MsgID
    /\ p.Payload = q.Payload

\* the first Decode call on the delivered stream has just returned
FirstDecode == ret.op = "Decode" /\ nDec = 1

\* C1: round trip.  A packet with at most 255 payload bytes and a message id
\* both registries define, encoded by EncodePacket and decoded by Decode from
\* a fresh stream holding the bytes written, comes back without error and
\* with the same SysID, CompID, MsgID and Payload.
C1_RoundTrip ==
    (/\ wire.kind = "frame"
     /\ FirstDecode
     /\ Len(encRet.arg.Payload) <= 255
     /\ Known(dec.Dialects, encRet.arg.MsgID))
    => (/\ ret.err = nil
        /\ ~ret.nilp
        /\ SameContent(ret.p, encRet.arg))

C1_Witness ==
    /\ wire.kind = "frame"
    /\ FirstDecode
    /\ ret.err = nil
    /\ ret.p.MsgID = 150
    /\ Len(ret.p.Payload) >= 2
    /\ SameContent(ret.p, encRet.arg)

\* the buffer DecodeBytes was given claims more than it holds
Truncated(b) ==
    Len(b) >= 2 /\ Len(b) < hdrLen + b[2] + numChecksumBytes

\* C2: truncation safety of DecodeBytes.  A buffer whose length byte declares
\* more payload and checksum bytes than the buffer holds is refused with the
\* invalid-header error, and no call panics.
C2_TruncationSafe ==
    ret.op = "DecodeBytes"
    => (/\ ret.err # Panic
        /\ Truncated(ret.in) => ret.err = ErrInvalidHeader)

\* C3: sequence monotonicity.  The frames of the successful EncodePacket
\* calls of one Encoder carry, in wire byte 2, seq0, seq0+1, ... modulo 256,
\* whatever SeqID the packets had.
C3_SeqMonotonic ==
    \A i \in 1..Len(sent) : sent[i][3] = (seq0 + i - 1) % 256

C3_Witness ==
    /\ Len(sent) = 2
    /\ sent[1][3] = 255
    /\ sent[2][3] = 0
    /\ encRet.arg.SeqID = 7

RECURSIVE Flatten(_)
Flatten(ss) == IF ss = <<>> THEN <<>> ELSE Head(ss) \o Flatten(Tail(ss))

\* C4: all or nothing.  As long as no write to the sink has failed, the sink
\* holds exactly the frames of the successful EncodePacket calls, one after
\* the other: nothing of a call refused for its message id reaches it.
C4_AllOrNothing ==
    bw.err = nil => bw.sink = Flatten(sent)

\* the byte of the frame (counted from 1) a flipped bit lies in
FlippedByte == (wire.at \div 8) + 1
FlipInHeader == FlippedByte \in 2..hdrLen
FlipInPayload ==
    FlippedByte \in (hdrLen + 1)..(Len(wire.bytes) - numChecksumBytes)
FlipKeepsFraming == FlippedByte \in 3..(hdrLen - 1) \/ FlipInPayload

\* C5, as claimed: a frame with one bit flipped in its header (length,
\* sequence, system id, component id, message id) or payload makes Decode
\* fail with ErrCrcFail.
C5_AnyFlipCrcFail ==
    (/\ wire.kind = "flip"
     /\ FirstDecode
     /\ Known(dec.Dialects, encRet.arg.MsgID)
     /\ FlipInHeader \/ FlipInPayload)
    => ret.err = ErrCrcFail

\* C5, amended: for a frame of a packet with at most 255 payload bytes and a
\* message id the decoder's registry defines, one bit flipped in the sequence,
\* system id or component id byte or in the payload makes Decode fail with
\* ErrCrcFail.
C5_FlipCrcFail ==
    (/\ wire.kind = "flip"
     /\ FirstDecode
     /\ Len(encRet.arg.Payload) <= 255
     /\ Known(dec.Dialects, encRet.arg.MsgID)
     /\ FlipKeepsFraming)
    => (ret.err = ErrCrcFail /\ nOk = 0)

C5_Witness ==
    /\ wire.kind = "flip"
    /\ FirstDecode
    /\ FlipInPayload
    /\ ret.err = ErrCrcFail
    /\ ret.p.Payload # encRet.arg.Payload

\* the line noise in front of the delivered frame
Garbage == Take(wire.bytes, wire.at)
NoStartByteIn(g) == \A i \in 1..Len(g) : g[i] # startByte

\* Decode has been called until the source ran out
Exhausted == ret.op = "Decode" /\ ret.err \in {EOF, ErrUnexpectedEOF} /\ br = <<>>

\* the one successful decode, returning the frame that was sent
OneGoodDecode ==
    /\ nOk = 1
    /\ SameContent(okP, encRet.arg)
    /\ okP.SeqID = encRet.wrote[3]

\* C6, as claimed: any garbage bytes, 0xFE among them, followed by one valid
\* frame: calling Decode until the source is exhausted yields exactly one
\* successful decode, of that frame.
C6_AnyGarbageResync ==
    (/\ wire.kind = "noise"
     /\ Known(dec.Dialects, encRet.arg.MsgID)
     /\ Exhausted)
    => OneGoodDecode

\* C6, amended: garbage bytes none of which is 0xFE, followed by one valid
\* frame: the first Decode call skips the garbage and returns the frame, the
\* source is then exhausted, and no later call succeeds.
C6_Resync ==
    (/\ wire.kind = "noise"
     /\ NoStartByteIn(Garbage)
     /\ Known(dec.Dialects, encRet.arg.MsgID)
     /\ nDec >= 1)
    => (/\ OneGoodDecode
        /\ br = <<>>
        /\ (ret.op = "Decode" /\ nDec > 1) => (ret.err = EOF /\ ret.nilp))

C6_Witness ==
    /\ wire.kind = "noise"
    /\ wire.at = 2
    /\ NoStartByteIn(Garbage)
    /\ Exhausted
    /\ nDec = 2
    /\ OneGoodDecode
    /\ startByte \in {okP.Payload[i] : i \in 1..Len(okP.Payload)}

\* C7: the sequence counter advances only on full success.  An EncodePacket
\* call that returns an error leaves CurrSeqID as it was; one that returns nil
\* adds one to it, modulo 256.
C7_SeqOnlyOnSuccess ==
    [][calls' = calls + 1 =>
        enc'.CurrSeqID = IF encRet'.err = nil THEN (enc.CurrSeqID + 1) % 256
                         ELSE enc.CurrSeqID]_vars

C7_Witness ==
    /\ calls = 2
    /\ Len(sent) = 1
    /\ encRet.err = ErrShortWrite
    /\ enc.CurrSeqID = 0
    /\ seq0 = 255

\* b holds a whole frame from its first byte on
WholeFrame(b) ==
    /\ Len(b) >= hdrLen
    /\ b[1] = startByte
    /\ Len(b) >= hdrLen + b[2] + numChecksumBytes

\* C8: unknown message id on decode.  For a whole frame whose message id no
\* registered dialect defines, Decode and DecodeBytes return ErrUnknownMsgID,
\* whatever the checksum bytes are, with a Packet that carries the frame's
\* SeqID, SysID, CompID, MsgID and Payload.
C8_UnknownOnDecode ==
    LET b == ret.in
    IN  (/\ ret.op \in {"Decode", "DecodeBytes"}
         /\ WholeFrame(b)
         /\ ~Known(dec.Dialects, b[6]))
        => (/\ ret.err = ErrUnknownMsgID
            /\ ~ret.nilp
            /\ ret.p.SeqID = b[3]
            /\ ret.p.SysID = b[4]
            /\ ret.p.CompID = b[5]
            /\ ret.p.MsgID = b[6]
            /\ ret.p.Payload = SubSeq(b, hdrLen + 1, hdrLen + b[2]))

\* a frame the decoder has no dialect for, with a checksum bit flipped
C8_Witness ==
    /\ ret.op = "DecodeBytes"
    /\ WholeFrame(ret.in)
    /\ ret.err = ErrUnknownMsgID
    /\ wire.kind = "flip"
    /\ FlippedByte > Len(wire.bytes) - numChecksumBytes
    /\ ret.p.MsgID = 150
    /\ Len(ret.p.Payload) >= 1

\* the checksum of a frame as the wire format defines it: over the header
\* without its start byte, the payload and the crc-extra seed
FrameSum(hdr5, payload, crcx) ==
    X25WriteByte(X25Write(X25New, hdr5 \o payload), crcx)

\* C9: wire layout.  The frame of a successful EncodePacket is 0xFE, L, seq,
\* SysID, CompID, MsgID, the L payload bytes, crc_lo, crc_hi, with L the
\* payload length, seq the encoder's sequence id and crc the X25 checksum of
\* [L, seq, SysID, CompID, MsgID], the payload and the crc-extra of MsgID.
C9_WireLayout ==
    (encRet.op = "EncodePacket" /\ encRet.err = nil)
    => LET p == encRet.arg
           f == encRet.wrote
           L == Len(p.Payload)
       IN  /\ Len(f) = hdrLen + L + numChecksumBytes
           /\ f[1] = startByte
           /\ f[2] = L
           /\ f[3] = (enc.CurrSeqID + 255) % 256
           /\ f[4] = p.SysID /\ f[5] = p.CompID /\ f[6] = p.MsgID
           /\ SubSeq(f, hdrLen + 1, hdrLen + L) = p.Payload
           /\ LET crc == FrameSum(<<L, f[3], p.SysID, p.CompID, p.MsgID>>, p.Payload,
                                  findCrcX(enc.Dialects, p.MsgID).crcx)
              IN  f[hdrLen + L + 1] = crc % 256 /\ f[hdrLen + L + 2] = crc \div 256

\* C10: frame length consistency.  In the frame of every successful
\* EncodePacket the length byte equals the number of payload bytes that
\* follow it, and that number is at most 255.
C10_LengthConsistent ==
    (encRet.op = "EncodePacket" /\ encRet.err = nil)
    => LET f == encRet.wrote
           n == Len(f) - hdrLen - numChecksumBytes
       IN  f[2] = n /\ n <= 255


\* C11: a Decode or DecodeBytes call that returns no error leaves the decoder's
\* CurrSeqID equal to the returned Packet's SeqID, and a call that ends in any
\* other way leaves CurrSeqID as it was before the call.
DecodeStep == nDec' # nDec \/ ret' # ret

C11_SeqTracking ==
    [][DecodeStep =>
          dec'.CurrSeqID = IF ret'.err = nil THEN ret'.p.SeqID ELSE dec.CurrSeqID]_vars

\* a frame numbered LastSeq was decoded by a decoder that started at 0
C11_Witness ==
    /\ ret.op \in {"Decode", "DecodeBytes"}
    /\ ret.err = nil
    /\ ret.p.SeqID = LastSeq
    /\ dec.CurrSeqID = LastSeq

\* C12: DecodeBytes(b) with len(b) < 6 or b[0] # 0xFE returns the invalid-header
\* error and a nil Packet and changes neither the decoder nor its reader; it
\* does not look for a start byte further on in b.
BytesStep == ret'.op = "DecodeBytes" /\ nDec' = nDec

C12_FailFast ==
    [][(BytesStep /\ (Len(ret'.in) < hdrLen \/ ret'.in[1] # startByte)) =>
          /\ ret'.err = ErrInvalidHeader
          /\ ret'.nilp
          /\ dec' = dec
          /\ br' = br]_vars

\* a frame the decoder would accept, behind one byte of garbage, was rejected
C12_Witness ==
    /\ ret.op = "DecodeBytes"
    /\ wire.kind = "noise" /\ wire.at = 1
    /\ Known(dec.Dialects, encRet.arg.MsgID)
    /\ Drop(ret.in, 1) = encRet.wrote
    /\ ret.err = ErrInvalidHeader /\ ret.nilp

\* b is one complete frame and nothing else
ExactFrame(b) ==
    /\ Len(b) >= hdrLen
    /\ b[1] = startByte
    /\ Len(b) = hdrLen + b[2] + numChecksumBytes

\* the outcome of a call, as its caller sees it
SameOutcome(r, q) ==
    /\ r.err = q.err
    /\ r.nilp = q.nilp
    /\ r.p = q.p

\* C13: buffer decode and stream decode agree.  On a buffer that is exactly one
\* frame, DecodeBytes and Decode over a stream of the same bytes return the
\* same error (none, ErrUnknownMsgID or ErrCrcFail) and the same Packet, and
\* leave the same decoder behind.
C13_BufferEqStream ==
    /\ (ret.op = "DecodeBytes" /\ ExactFrame(ret.in)) =>
          LET q == DecodeOp(dec, ret.in)
          IN  /\ SameOutcome(ret, q)
              /\ ret.err \in {nil, ErrUnknownMsgID, ErrCrcFail}
              /\ q.d = dec
    /\ (FirstDecode /\ ExactFrame(ret.in)) =>
          LET q == DecodeBytesOp(dec, ret.in, Len(ret.in))
          IN  /\ SameOutcome(ret, q)
              /\ ret.err \in {nil, ErrUnknownMsgID, ErrCrcFail}
              /\ q.d = dec

\* both decoders refused a frame damaged in its payload or checksum
C13_Witness ==
    /\ ret.op = "DecodeBytes"
    /\ wire.kind = "flip"
    /\ ExactFrame(ret.in)
    /\ ret.err = ErrCrcFail
    /\ DecodeOp(dec, ret.in).err = ErrCrcFail
    /\ ret.p.SeqID = LastSeq

\* C14: Encoder.CurrSeqID is the last sequence id encoded.  Right after an
\* EncodePacket call that returned nil, the encoder's CurrSeqID equals the
\* sequence byte of the frame the call wrote.
C14_LastSeqEncoded ==
    (encRet.op = "EncodePacket" /\ encRet.err = nil)
        => enc.CurrSeqID = encRet.wrote[3]

\* the frame a call worked on: Decode's begins at the first start byte of the
\* stream, DecodeBytes' at the first byte of the buffer
FrameRead ==
    IF ret.op = "Decode" THEN Drop(ret.in, IndexOfStart(ret.in, 1) - 1) ELSE ret.in

\* C15: a successful decode returns a verified frame.  When Decode or
\* DecodeBytes returns no error, the Packet's MsgID is in the decoder's
\* registry, its Payload has as many bytes as the frame's length byte says, and
\* its Checksum is the two bytes behind the payload, low byte first, and equals
\* the X25 sum over the five header bytes, the payload and the id's crc-extra.
C15_SuccessVerified ==
    (ret.op \in {"Decode", "DecodeBytes"} /\ ret.err = nil) =>
        LET b == FrameRead
            p == ret.p
            end == hdrLen + b[2]
        IN  /\ ~ret.nilp
            /\ Known(dec.Dialects, p.MsgID)
            /\ Len(p.Payload) = b[2]
            /\ p.Payload = SubSeq(b, hdrLen + 1, end)
            /\ p.Checksum = b[end + 1] + 256 * b[end + 2]
            /\ p.Checksum = FrameSum(<<b[2], p.SeqID, p.SysID, p.CompID, p.MsgID>>,
                                      p.Payload,
                                      findCrcX(dec.Dialects, p.MsgID).crcx)

\* a frame of the second dialect with the longest payload was accepted behind
\* line noise
C15_Witness ==
    /\ ret.op = "Decode"
    /\ wire.kind = "noise"
    /\ ret.err = nil
    /\ ret.p.MsgID = 150
    /\ Len(ret.p.Payload) >= MaxPayloadLen

\* the Packet a decoder makes of the frame f
PacketOfFrame(f) ==
    LET end == hdrLen + f[2]
    IN  Packet(f[3], f[4], f[5], f[6], SubSeq(f, hdrLen + 1, end),
               f[end + 1] + 256 * f[end + 2])

\* the bytes of the stream behind its first n frames
BehindFrames(n) == Len(Flatten(SubSeq(sent, n + 1, Len(sent))))

\* C16: in-order delivery of back-to-back frames.  On a stream of k valid
\* frames with nothing between them, the n-th Decode call, n <= k, returns the
\* n-th frame and consumes exactly its 8 + L bytes, and the call after the
\* k-th returns EOF and a nil Packet.
C16_InOrder ==
    (wire.kind = "stream" /\ wire.bytes = Flatten(sent)) =>
        \A n \in 1..Len(hist) :
            IF n <= Len(sent)
            THEN /\ hist[n].err = nil
                 /\ ~hist[n].nilp
                 /\ hist[n].p = PacketOfFrame(sent[n])
                 /\ hist[n].left = BehindFrames(n)
                 /\ BehindFrames(n - 1) - hist[n].left = hdrLen + sent[n][2] + numChecksumBytes
            ELSE hist[n].err = EOF /\ hist[n].nilp

\* two or more frames, the first with 0xFE in its payload, were all returned
\* and the call after them found the end of the stream
C16_Witness ==
    /\ wire.kind = "stream"
    /\ Len(sent) >= 2
    /\ sent[1][2] >= 1 /\ sent[1][hdrLen + 1] = startByte
    /\ Len(hist) = Len(sent) + 1
    /\ nOk = Len(sent)
    /\ ret.err = EOF /\ ret.nilp

\* the first Decode call on the stream refused its frame
FirstFailed == Len(hist) >= 1 /\ hist[1].err \in {ErrCrcFail, ErrUnknownMsgID}

\* some Decode call after the first returned the frame f
ReturnedLater(f) ==
    \E n \in 2..Len(hist) : hist[n].err = nil /\ hist[n].p = PacketOfFrame(f)

\* C17, as claimed: after a Decode call failed with ErrCrcFail or
\* ErrUnknownMsgID the decoder keeps nothing of the failed frame, and every
\* valid frame behind the corrupted one is returned by a later Decode call: by
\* the time the source is exhausted none of them is lost.
C17_NoFrameLost ==
    (wire.kind = "damaged" /\ FirstFailed /\ Exhausted) =>
        /\ hist[1].seq = 0
        /\ \A i \in 2..Len(sent) : ReturnedLater(sent[i])

\* C17, amended: when the corrupted frame's start and length bytes are intact,
\* the failed call leaves CurrSeqID alone and consumes exactly the corrupted
\* frame, and the calls after it return the frames behind it in order.
C17_Recovery ==
    (wire.kind = "damaged" /\ FirstFailed /\ FlippedByte > 2) =>
        /\ hist[1].seq = 0
        /\ hist[1].left = BehindFrames(1)
        /\ \A n \in 2..Len(hist) :
              n <= Len(sent) =>
                  /\ hist[n].err = nil
                  /\ hist[n].p = PacketOfFrame(sent[n])
                  /\ hist[n].left = BehindFrames(n)

\* a frame whose damaged message id no dialect defines was refused, and the
\* frame behind it returned by the next call
C17_Witness ==
    /\ wire.kind = "damaged"
    /\ FlippedByte = hdrLen
    /\ Len(sent) >= 2
    /\ Len(hist) >= 2
    /\ hist[1].err = ErrUnknownMsgID
    /\ hist[2].err = nil
    /\ hist[2].p = PacketOfFrame(sent[2])

\* C18: partial results on a short source.  When the source ends while Decode
\* looks for the start byte or before the 5 header bytes behind it are there,
\* Decode returns the I/O error and a nil Packet; when it ends behind the
\* header but before the payload and checksum are there, Decode returns the
\* I/O error and a Packet with SeqID, SysID, CompID and MsgID of the header and
\* neither Payload nor Checksum.
C18_ShortSource ==
    ret.op = "Decode" =>
        LET s == ret.in
            i == IndexOfStart(s, 1)
            behind == Len(s) - i
        IN  /\ (i = 0 \/ behind = 0) => (ret.err = EOF /\ ret.nilp)
            /\ (i # 0 /\ behind \in 1..(hdrLen - 2)) =>
                   (ret.err = ErrUnexpectedEOF /\ ret.nilp)
            /\ (i # 0 /\ behind >= hdrLen - 1
                       /\ behind - (hdrLen - 1) < s[i + 1] + numChecksumBytes) =>
                   /\ ret.err = IF behind = hdrLen - 1 THEN EOF ELSE ErrUnexpectedEOF
                   /\ ~ret.nilp
                   /\ ret.p = Packet(s[i + 2], s[i + 3], s[i + 4], s[i + 5], <<>>, 0)

\* a frame cut inside its payload or checksum gave an error and its header
C18_Witness ==
    /\ ret.op = "Decode"
    /\ wire.kind = "cut" /\ wire.at > hdrLen
    /\ ret.err = ErrUnexpectedEOF
    /\ ~ret.nilp
    /\ ret.p.MsgID = 150 /\ ret.p.SeqID = LastSeq
    /\ ret.p.Payload = <<>> /\ ret.p.Checksum = 0

\* C19: Encode(sysID, compID, m).  When m.Pack fails, Encode returns Pack's
\* error, writes nothing and leaves CurrSeqID alone.  Otherwise it does what
\* EncodePacket does for the Packet Pack filled, with SysID and CompID
\* replaced by the arguments: a frame it writes carries the encoder's current
\* sequence id, sysID, compID, and Pack's message id and payload.
C19_Encode ==
    [][(calls' = calls + 1 /\ encRet'.op = "Encode") =>
          LET c == encRet'
              f == c.wrote
              q == [c.arg EXCEPT !.SysID = c.sysID, !.CompID = c.compID]
          IN  IF c.packErr # nil
              THEN c.err = c.packErr /\ enc' = enc /\ bw' = bw /\ sent' = sent
              ELSE /\ \E mode \in SinkModes :
                        LET r == EncodePacketOp(enc, bw, q, mode)
                        IN  /\ enc' = r.e /\ bw' = r.w
                            /\ c.err = r.err /\ f = r.wrote
                   /\ c.err = nil =>
                        /\ f[3] = enc.CurrSeqID
                        /\ f[4] = c.sysID /\ f[5] = c.compID
                        /\ f[6] = c.arg.MsgID
                        /\ SubSeq(f, hdrLen + 1, Len(f) - numChecksumBytes) = c.arg.Payload
                        /\ sent' = Append(sent, f)]_vars

\* a message whose Pack set ids of its own went out under the caller's ids,
\* as the second frame of the encoder
C19_Witness ==
    /\ encRet.op = "Encode"
    /\ encRet.err = nil
    /\ encRet.arg.SysID = 9 /\ encRet.sysID = 1
    /\ encRet.wrote[4] = 1 /\ encRet.wrote[5] = 2
    /\ encRet.wrote[3] = 1
    /\ encRet.arg.MsgID = 150
====
